---- MODULE Spec2Model ----
(***************************************************************************)
(* Model of Entrainment.py: the Schiller-Naumann drag correlation          *)
(* (find_cd_from_rep) and the entrainment pipeline (run_all_calculations): *)
(* droplet diameter, fixed-point solve for (Re_p, Cd), regime exponent m,  *)
(* onset correction E_M and the final entrainment fraction E.              *)
(*                                                                         *)
(* Python floats are modelled as decimal floating-point numbers with a     *)
(* four-digit mantissa, value = m * 10^e, together with the special values *)
(* inf and nan.  A Python exception raised in the middle of an expression  *)
(* is modelled as a value whose kind is the exception's name; it is        *)
(* propagated by every operation, as the exception would be.  The exponent *)
(* is unbounded: overflow and underflow of IEEE doubles are not modelled.  *)
(***************************************************************************)
EXTENDS Integers, Sequences, FiniteSets, TLC

----------------------------------------------------------------------------
(* Float values *)

Num(m, e) == [k |-> "num", m |-> m, e |-> e]
Zero == Num(0, 0)
PosInf == [k |-> "inf", m |-> 1, e |-> 0]
NegInf == [k |-> "inf", m |-> -1, e |-> 0]
NaN == [k |-> "nan", m |-> 0, e |-> 0]
Unset == [k |-> "unset", m |-> 0, e |-> 0]
Raise(name) == [k |-> name, m |-> 0, e |-> 0]

IsErr(x) == x.k \in {"ZeroDivisionError", "ValueError"}

AbsInt(n) == IF n < 0 THEN -n ELSE n
SignInt(n) == IF n < 0 THEN -1 ELSE IF n > 0 THEN 1 ELSE 0

\* The float nearest to n * 10^e: the mantissa is brought to four digits,
\* rounding half away from zero.
RECURSIVE Norm(_, _)
Norm(n, e) ==
    IF n = 0 THEN Zero
    ELSE IF AbsInt(n) >= 10000
         THEN Norm(SignInt(n) * ((AbsInt(n) + 5) \div 10), e + 1)
    ELSE IF AbsInt(n) < 1000 THEN Norm(n * 10, e - 1)
    ELSE Num(n, e)

Neg(a) ==
    IF a.k \in {"num", "inf"} THEN [a EXCEPT !.m = -a.m] ELSE a

Mul(a, b) ==
    IF IsErr(a) THEN a
    ELSE IF IsErr(b) THEN b
    ELSE IF a.k = "nan" \/ b.k = "nan" THEN NaN
    ELSE IF a.k = "inf" \/ b.k = "inf"
         THEN IF a.m = 0 \/ b.m = 0 THEN NaN
              ELSE IF SignInt(a.m) * SignInt(b.m) > 0 THEN PosInf ELSE NegInf
    ELSE Norm(a.m * b.m, a.e + b.e)

\* Python's float division: a zero divisor raises ZeroDivisionError.
Div(a, b) ==
    IF IsErr(a) THEN a
    ELSE IF IsErr(b) THEN b
    ELSE IF b.k = "num" /\ b.m = 0 THEN Raise("ZeroDivisionError")
    ELSE IF a.k = "nan" \/ b.k = "nan" THEN NaN
    ELSE IF a.k = "inf"
         THEN IF b.k = "inf" THEN NaN
              ELSE IF SignInt(a.m) * SignInt(b.m) > 0 THEN PosInf ELSE NegInf
    ELSE IF b.k = "inf" THEN Zero
    ELSE Norm(SignInt(a.m) * SignInt(b.m) * ((AbsInt(a.m) * 100000) \div AbsInt(b.m)),
              a.e - b.e - 5)

Add(a, b) ==
    IF IsErr(a) THEN a
    ELSE IF IsErr(b) THEN b
    ELSE IF a.k = "nan" \/ b.k = "nan" THEN NaN
    ELSE IF a.k = "inf"
         THEN IF b.k = "inf" /\ b.m # a.m THEN NaN ELSE a
    ELSE IF b.k = "inf" THEN b
    ELSE IF a.m = 0 THEN b
    ELSE IF b.m = 0 THEN a
    ELSE LET hi == IF a.e >= b.e THEN a ELSE b
             lo == IF a.e >= b.e THEN b ELSE a
             sh == hi.e - lo.e
         IN  IF sh > 5 THEN hi ELSE Norm(hi.m * (10 ^ sh) + lo.m, lo.e)

Sub(a, b) == Add(a, Neg(b))

AbsF(a) ==
    IF a.k \in {"num", "inf"} THEN [a EXCEPT !.m = AbsInt(a.m)] ELSE a

\* Comparisons; every comparison with nan is False.
Less(a, b) ==
    LET diff == Sub(a, b) IN diff.k \in {"num", "inf"} /\ diff.m < 0
Equal(a, b) == a.k \in {"num", "inf"} /\ a = b
LessEq(a, b) == Equal(a, b) \/ Less(a, b)

RECURSIVE Newton(_, _)
Newton(n, x) ==
    LET y == (x + n \div x) \div 2 IN IF y >= x THEN x ELSE Newton(n, y)
ISqrt(n) == IF n = 0 THEN 0 ELSE Newton(n, 31623)

\* math.sqrt: a negative argument raises ValueError (math domain error).
Sqrt(a) ==
    IF IsErr(a) THEN a
    ELSE IF a.k = "nan" THEN NaN
    ELSE IF a.m < 0 THEN Raise("ValueError")
    ELSE IF a.k = "inf" THEN PosInf
    ELSE IF a.m = 0 THEN Zero
    ELSE LET odd == (a.e % 2) = 1
             m10 == IF odd THEN a.m * 10 ELSE a.m
             e10 == IF odd THEN a.e - 1 ELSE a.e
         IN  Norm(ISqrt(m10 * 10000), (e10 - 4) \div 2)

----------------------------------------------------------------------------
(* Logarithm and power, computed in fixed point with four decimals *)

\* The 14 fractional bits of log2(y / 10^4) for 10^4 <= y < 2 * 10^4, by
\* repeated squaring; w is the weight of the next bit, in units of 2^-14.
RECURSIVE Log2Frac(_, _)
Log2Frac(y, w) ==
    IF w = 0 THEN 0
    ELSE LET sq == (y * y) \div 10000
         IN  IF sq >= 20000 THEN w + Log2Frac(sq \div 2, w \div 2)
             ELSE Log2Frac(sq, w \div 2)

\* log10 of a positive float, times 10^4.
Log10Fix(a) ==
    LET y0 == a.m * 10
        h == IF y0 >= 80000 THEN 3 ELSE IF y0 >= 40000 THEN 2
             ELSE IF y0 >= 20000 THEN 1 ELSE 0
        log2 == h * 16384 + Log2Frac(y0 \div (2 ^ h), 8192)
    IN  (a.e + 3) * 10000 + (log2 * 30103 + 81920) \div 163840

\* The sum of the Taylor series of exp(z / 10^4) * 10^4 from the k-th term on.
RECURSIVE ExpSum(_, _, _)
ExpSum(z, term, k) ==
    IF term = 0 THEN 0
    ELSE term + ExpSum(z, (term * z + k * 5000) \div (k * 10000), k + 1)

\* 10^(r / 10^4) * 10^4 for 0 <= r < 10^4.
Pow10Frac(r) == ExpSum((r * 23026 + 5000) \div 10000, 10000, 1)

One == Num(1000, -3)

IsInt(y) ==
    y.k = "num" /\ (y.m = 0 \/ y.e >= 0 \/ (y.e >= -3 /\ y.m % (10 ^ (-y.e)) = 0))
IntOf(y) == IF y.e >= 0 THEN y.m * (10 ^ y.e) ELSE y.m \div (10 ^ (-y.e))

RECURSIVE IPow(_, _)
IPow(x, n) == IF n = 0 THEN One ELSE Mul(x, IPow(x, n - 1))

\* x^y for a positive finite x and a finite y that is not an integer.
PowPos(x, y) ==
    LET l == Log10Fix(x)
        t == IF y.e >= 0 THEN y.m * l * (10 ^ y.e)
             ELSE (y.m * l) \div (10 ^ (-y.e))
    IN  Norm(Pow10Frac(t % 10000), (t \div 10000) - 4)

\* math.pow and the ** operator, for the finite exponents the program uses.
\* A negative base with a fractional exponent raises ValueError.
Pow(x, y) ==
    IF IsErr(x) THEN x
    ELSE IF IsErr(y) THEN y
    ELSE IF y.k = "num" /\ y.m = 0 THEN One
    ELSE IF x.k = "nan" \/ y.k # "num" THEN NaN
    ELSE IF IsInt(y)
         THEN IF IntOf(y) > 0 THEN IPow(x, IntOf(y))
              ELSE IF x.k = "num" /\ x.m = 0 THEN Raise("ValueError")
              ELSE Div(One, IPow(x, -IntOf(y)))
    ELSE IF x.k = "inf" THEN (IF y.m > 0 THEN PosInf ELSE Zero)
    ELSE IF x.m < 0 THEN Raise("ValueError")
    ELSE IF x.m = 0 THEN (IF y.m > 0 THEN Zero ELSE Raise("ValueError"))
    ELSE PowPos(x, y)

\* math.log10: a non-positive argument raises ValueError.
Log10(a) ==
    IF IsErr(a) THEN a
    ELSE IF a.k = "nan" THEN NaN
    ELSE IF a.m <= 0 THEN Raise("ValueError")
    ELSE IF a.k = "inf" THEN PosInf
    ELSE Norm(Log10Fix(a), -4)

----------------------------------------------------------------------------
(* find_cd_from_rep *)

SchillerNaumann(re_p) ==
    Add(Mul(Div(Num(2400, -2), re_p),
            Add(One, Mul(Num(1500, -4), Pow(re_p, Num(6870, -4))))),
        Div(Num(4200, -4),
            Add(One, Div(Num(4250, 1), Pow(re_p, Num(1160, -3))))))

\* Mutant: the guard excludes zero, so that re_p = 0 reaches the division.
find_cd_from_rep_strict(re_p) ==
    IF Less(re_p, Zero) THEN PosInf ELSE SchillerNaumann(re_p)

\* Mutant: a non-positive Reynolds number is answered with 0 instead of inf.
find_cd_from_rep_zero(re_p) ==
    IF LessEq(re_p, Zero) THEN Zero ELSE SchillerNaumann(re_p)

find_cd_from_rep(re_p) ==
    IF LessEq(re_p, Zero) THEN PosInf ELSE SchillerNaumann(re_p)

----------------------------------------------------------------------------
(* run_all_calculations *)

VARIABLES
    g, rho_l, rho_g, mu_g, mu_l, d_capital, ug, sigma, w_l,  \* the parameters
    pc,           \* the stage about to run
    outcome,      \* how the call ended, "running" until then
    solver,       \* the state of the fixed-point loop
    d,            \* drop diameter
    cd_guess, i, re_p_new, cd_new,    \* the loop's variables; i counts the iterations run
    final_re_p, final_cd, m_value,
    em, e_value

params == <<g, rho_l, rho_g, mu_g, mu_l, d_capital, ug, sigma, w_l>>
loop_vars == <<cd_guess, i, re_p_new, cd_new>>
finals == <<final_re_p, final_cd>>
vars == <<params, pc, outcome, solver, d, loop_vars, finals, m_value, em, e_value>>

\* Bounds of the parameter sets: gas velocities 1, 10, ..., 10^MaxUgExp and
\* liquid flow rates 0.5, 0.05, ..., 5 * 10^-MaxWlExp.
MaxUgExp == 2
MaxWlExp == 3

a2 == Num(9000, -11)
max_iterations == 500
tolerance == Num(1000, -9)
pi == Num(3142, -3)

g_values == {Num(9810, -3)}
rho_l_values == {Zero, Num(5000, -2), Num(8000, -1)}
rho_g_values == {Zero, Num(7000, -2)}
mu_g_values == {Num(-1000, -8), Zero, Num(1000, -8)}
mu_l_values == {Num(-1000, -7), Num(1000, -7)}
d_capital_values == {Num(6000, -4)}
ug_values == {Zero} \cup {Num(1000, k - 3) : k \in 0..MaxUgExp}
sigma_values == {Num(-1150, -5), Zero, Num(1150, -5)}
w_l_values == {Zero} \cup {Num(5000, -3 - k) : k \in 1..MaxWlExp}

\* The except clauses of lines 141-144: ValueError is reported as invalid
\* input, any other exception as an unexpected error.
\* Mutant: every exception is reported as invalid input.
HandlerCatchAll(exc) == "invalid_input"

Handler(exc) == IF exc.k = "ValueError" THEN "invalid_input" ELSE "unexpected_error"

Init ==
    /\ g \in g_values
    /\ rho_l \in rho_l_values
    /\ rho_g \in rho_g_values
    /\ mu_g \in mu_g_values
    /\ mu_l \in mu_l_values
    /\ d_capital \in d_capital_values
    /\ ug \in ug_values
    /\ sigma \in sigma_values
    /\ w_l \in w_l_values
    /\ pc = "step1"
    /\ outcome = "running"
    /\ solver = "Idle"
    /\ d = Unset
    /\ cd_guess = Unset
    /\ i = 0
    /\ re_p_new = Unset
    /\ cd_new = Unset
    /\ final_re_p = Unset
    /\ final_cd = Unset
    /\ m_value = Unset
    /\ em = Unset
    /\ e_value = Unset

\* Step 1, lines 43-56.
\* Mutant: the gas density is compared with < instead of <=.
precondition_violated_strict ==
    LessEq(sigma, Zero) \/ Less(rho_g, Zero) \/ LessEq(ug, Zero)

precondition_violated ==
    LessEq(sigma, Zero) \/ LessEq(rho_g, Zero) \/ LessEq(ug, Zero)

drop_diameter ==
    Pow(Div(Mul(Mul(d_capital, sigma), Num(9100, -6)),
            Mul(rho_g, Pow(ug, Num(2000, -3)))),
        Num(5000, -4))

Step1 ==
    /\ pc = "step1"
    /\ IF precondition_violated
       THEN /\ pc' = "done"
            /\ outcome' = "invalid_input"
            /\ UNCHANGED <<d, cd_guess, solver>>
       ELSE IF IsErr(drop_diameter)
       THEN /\ pc' = "done"
            /\ outcome' = Handler(drop_diameter)
            /\ UNCHANGED <<d, cd_guess, solver>>
       ELSE /\ d' = drop_diameter
            /\ cd_guess' = Num(4000, -4)
            /\ solver' = "Iterating"
            /\ pc' = "loop"
            /\ UNCHANGED outcome
    /\ UNCHANGED <<params, i, re_p_new, cd_new, finals, m_value, em, e_value>>

\* Step 2, one pass through the body of the for loop, lines 59-74.
terminal_velocity ==
    Sqrt(Div(Mul(Mul(Mul(Num(4000, -3), d), g), rho_l),
             Mul(Mul(Num(3000, -3), cd_guess), rho_g)))

reynolds(u_t) == Div(Mul(Mul(d, u_t), rho_g), mu_g)

\* Mutant: the difference is compared without abs().
converged_signed(cd, guess) == Less(Sub(cd, guess), tolerance)

converged(cd, guess) == Less(AbsF(Sub(cd, guess)), tolerance)

Iterate ==
    /\ pc = "loop"
    /\ i < max_iterations
    /\ IF LessEq(cd_guess, Zero)
       THEN /\ solver' = "Diverged"
            /\ outcome' = "cd_abort"
            /\ pc' = "done"
            /\ UNCHANGED <<loop_vars, finals>>
       ELSE LET re == reynolds(terminal_velocity)
                cd == find_cd_from_rep(re)
            IN  IF IsErr(cd)
                THEN /\ pc' = "done"
                     /\ outcome' = Handler(cd)
                     /\ UNCHANGED <<solver, loop_vars, finals>>
                ELSE /\ re_p_new' = re
                     /\ cd_new' = cd
                     /\ i' = i + 1
                     /\ UNCHANGED outcome
                     /\ IF converged(cd, cd_guess)
                        THEN /\ final_re_p' = re
                             /\ final_cd' = cd
                             /\ solver' = "Converged"
                             /\ pc' = "regime"
                             /\ UNCHANGED cd_guess
                        ELSE /\ cd_guess' = cd
                             /\ UNCHANGED <<finals, solver, pc>>
    /\ UNCHANGED <<params, d, m_value, em, e_value>>

\* Mutant: running out of iterations ends the call without a result.
LoopElseAborts ==
    /\ pc = "loop"
    /\ i = max_iterations
    /\ solver' = "BudgetExhausted"
    /\ pc' = "done"
    /\ outcome' = "unexpected_error"
    /\ UNCHANGED <<params, d, loop_vars, finals, m_value, em, e_value>>

\* The else clause of the for loop, lines 75-78.
LoopElse ==
    /\ pc = "loop"
    /\ i = max_iterations
    /\ final_re_p' = re_p_new
    /\ final_cd' = cd_new
    /\ solver' = "BudgetExhausted"
    /\ pc' = "regime"
    /\ UNCHANGED <<params, outcome, d, loop_vars, m_value, em, e_value>>

\* Lines 82-87.
\* Mutant: the class boundaries are compared with <= instead of <.
regime_exponent_inclusive(re_p) ==
    IF LessEq(re_p, Num(1920, -3)) THEN One
    ELSE IF LessEq(re_p, Num(5000, -1)) THEN Num(6000, -4)
    ELSE Zero

regime_exponent(re_p) ==
    IF Less(re_p, Num(1920, -3)) THEN One
    ELSE IF Less(re_p, Num(5000, -1)) THEN Num(6000, -4)
    ELSE Zero

Regime ==
    /\ pc = "regime"
    /\ m_value' = regime_exponent(final_re_p)
    /\ pc' = "step3"
    /\ UNCHANGED <<params, outcome, solver, d, loop_vars, finals, em, e_value>>

\* Step 3, lines 94-106.
omega == Mul(Div(mu_l, mu_g), Sqrt(Div(rho_g, rho_l)))

relfc ==
    Add(Sub(Add(Mul(Num(7300, -3), Pow(Log10(omega), Num(3000, -3))),
                Mul(Num(4420, -2), Pow(Log10(omega), Num(2000, -3)))),
            Mul(Num(2630, -1), Log10(omega))),
        Num(4390, -1))

gamma_c == Div(Mul(relfc, mu_l), Num(4000, -3))

onset_fraction == Sub(One, Div(Mul(Mul(pi, d_capital), gamma_c), w_l))

Step3 ==
    /\ pc = "step3"
    /\ IF Equal(mu_g, Zero) \/ Equal(rho_l, Zero)
       THEN pc' = "done" /\ outcome' = "invalid_input" /\ UNCHANGED em
       ELSE IF IsErr(omega)
       THEN pc' = "done" /\ outcome' = Handler(omega) /\ UNCHANGED em
       ELSE IF LessEq(omega, Zero)
       THEN pc' = "done" /\ outcome' = "invalid_input" /\ UNCHANGED em
       ELSE IF IsErr(gamma_c)
       THEN pc' = "done" /\ outcome' = Handler(gamma_c) /\ UNCHANGED em
       ELSE IF Equal(w_l, Zero)
       THEN pc' = "done" /\ outcome' = "invalid_input" /\ UNCHANGED em
       ELSE pc' = "step4" /\ em' = onset_fraction /\ UNCHANGED outcome
    /\ UNCHANGED <<params, solver, d, loop_vars, finals, m_value, e_value>>

\* Step 4, lines 114-139.
term1 == Div(Sqrt(Mul(Mul(Mul(d_capital, Pow(ug, Num(3000, -3))), rho_l), rho_g)), sigma)

numerator_term2 == Mul(Pow(rho_g, Sub(One, m_value)), Pow(mu_g, m_value))

denominator_term2 == Mul(Mul(Pow(d, Add(One, m_value)), g), Sub(rho_l, rho_g))

exponent_term2 == Div(One, Sub(Num(2000, -3), m_value))

term2 == Pow(Div(numerator_term2, denominator_term2), exponent_term2)

rhs == Mul(Mul(a2, term1), term2)

Step4 ==
    /\ pc = "step4"
    /\ pc' = "done"
    /\ IF IsErr(term1)
       THEN outcome' = Handler(term1) /\ UNCHANGED e_value
       ELSE IF IsErr(numerator_term2)
       THEN outcome' = Handler(numerator_term2) /\ UNCHANGED e_value
       ELSE IF IsErr(denominator_term2)
       THEN outcome' = Handler(denominator_term2) /\ UNCHANGED e_value
       ELSE IF Equal(Sub(Num(2000, -3), m_value), Zero)
       THEN outcome' = "m_abort" /\ UNCHANGED e_value
       ELSE IF LessEq(denominator_term2, Zero)
       THEN outcome' = "invalid_input" /\ UNCHANGED e_value
       ELSE IF IsErr(rhs)
       THEN outcome' = Handler(rhs) /\ UNCHANGED e_value
       ELSE IF Equal(Add(One, rhs), Zero)
       THEN outcome' = "invalid_input" /\ UNCHANGED e_value
       ELSE outcome' = "result" /\ e_value' = Mul(em, Div(rhs, Add(One, rhs)))
    /\ UNCHANGED <<params, solver, d, loop_vars, finals, m_value, em>>

Next == Step1 \/ Iterate \/ LoopElse \/ Regime \/ Step3 \/ Step4

Spec == Init /\ [][Next]_vars

----------------------------------------------------------------------------
(* The stages after the solver, started from solver results around the     *)
(* boundaries of the regime classes.                                       *)

MaxProbe == 3

re_p_probes ==
    {Zero, Num(6904, -2)}
        \cup {Norm(1920 + j, -3) : j \in -MaxProbe..MaxProbe}
        \cup {Norm(5000 + j, -1) : j \in -MaxProbe..MaxProbe}

InitRegime ==
    /\ g = Num(9810, -3)
    /\ rho_l = Num(8000, -1)
    /\ rho_g = Num(7000, -2)
    /\ mu_g = Num(1000, -8)
    /\ mu_l = Num(1000, -7)
    /\ d_capital = Num(6000, -4)
    /\ ug \in ug_values \ {Zero}
    /\ sigma = Num(1150, -5)
    /\ w_l \in w_l_values
    /\ pc = "regime"
    /\ outcome = "running"
    /\ d = drop_diameter
    /\ final_re_p \in re_p_probes
    /\ final_cd = find_cd_from_rep(final_re_p)
    /\ solver = IF final_cd = PosInf THEN "BudgetExhausted" ELSE "Converged"
    /\ cd_guess = final_cd
    /\ i = IF final_cd = PosInf THEN max_iterations ELSE 1
    /\ re_p_new = final_re_p
    /\ cd_new = final_cd
    /\ m_value = Unset
    /\ em = Unset
    /\ e_value = Unset

NextRegime == Regime \/ Step3 \/ Step4

SpecRegime == InitRegime /\ [][NextRegime]_vars

----------------------------------------------------------------------------
(* find_cd_from_rep applied to Reynolds numbers of either sign.            *)

MaxDragExp == 4

drag_probes ==
    {Zero} \cup {Num(s * m, e - 3) : s \in {-1, 1}, m \in {1000, 1920, 5000},
                                     e \in -MaxDragExp..MaxDragExp}

InitDrag ==
    /\ g = Num(9810, -3)
    /\ rho_l = Num(8000, -1)
    /\ rho_g = Num(7000, -2)
    /\ mu_g = Num(1000, -8)
    /\ mu_l = Num(1000, -7)
    /\ d_capital = Num(6000, -4)
    /\ ug = Num(1000, -2)
    /\ sigma = Num(1150, -5)
    /\ w_l = Num(5000, -4)
    /\ pc = "call"
    /\ outcome = "running"
    /\ solver = "Iterating"
    /\ d = drop_diameter
    /\ cd_guess = Num(4000, -4)
    /\ i = 0
    /\ re_p_new \in drag_probes
    /\ cd_new = Unset
    /\ final_re_p = Unset
    /\ final_cd = Unset
    /\ m_value = Unset
    /\ em = Unset
    /\ e_value = Unset

\* The call cd_new = find_cd_from_rep(re_p_new) of line 67; an exception
\* raised by the call is kept as its value.
CallDrag ==
    /\ pc = "call"
    /\ cd_new' = find_cd_from_rep(re_p_new)
    /\ pc' = "returned"
    /\ UNCHANGED <<params, outcome, solver, d, cd_guess, i, re_p_new, finals,
                   m_value, em, e_value>>

NextDrag == CallDrag

SpecDrag == InitDrag /\ [][NextDrag]_vars

----------------------------------------------------------------------------
(* Properties *)

droplet_preconditions_hold ==
    Less(Zero, sigma) /\ Less(Zero, rho_g) /\ Less(Zero, ug)

\* C1: for every parameter set that passes the droplet-diameter
\* preconditions, the solver runs at most 500 iterations and leaves the
\* Iterating state in one of Converged, Diverged or BudgetExhausted.
C1_SolverEndsInOneOfThreeOutcomes ==
    /\ i <= max_iterations
    /\ (droplet_preconditions_hold /\ pc \notin {"step1", "loop"})
           => solver \in {"Converged", "Diverged", "BudgetExhausted"}

\* C2: when all 500 iterations run without the tolerance test passing, the
\* call does not end there: control passes to the regime stage with
\* (final_re_p, final_cd) equal to the pair computed by the 500th iteration,
\* and the later stages work from that pair.
C2_BudgetExhaustedContinues ==
    solver = "BudgetExhausted" =>
        /\ i = max_iterations
        /\ final_re_p = re_p_new
        /\ final_cd = cd_new
        /\ cd_new = find_cd_from_rep(re_p_new)
        /\ pc \in {"regime", "step3", "step4", "done"}
        /\ (pc = "regime" => outcome = "running")
        /\ (pc \in {"step3", "step4", "done"} => m_value = regime_exponent(final_re_p))
        /\ outcome # "cd_abort"

\* C2 witness: a run that used up the 500 iterations and went on through the
\* regime, onset and final stages to a value of E.
C2_Witness ==
    /\ solver = "BudgetExhausted"
    /\ i = max_iterations
    /\ pc = "done"
    /\ m_value = One
    /\ em # Unset
    /\ outcome = "result"

\* C3 as stated: no validation error occurs once an iteration has run.
C3_ValidationBeforeAnyIteration ==
    outcome = "invalid_input" => i = 0

\* C3 as amended: a validation error raised before any iteration is the one
\* of the droplet-diameter preconditions; every other validation error is
\* raised after the solver loop has ended, so after at least one iteration.
C3_OnlyDropletCheckPrecedesIteration ==
    outcome = "invalid_input" =>
        IF droplet_preconditions_hold
        THEN i >= 1 /\ solver \in {"Converged", "BudgetExhausted"}
        ELSE i = 0 /\ solver = "Idle"

\* C3 witness: W_L = 0 is rejected after the solver has converged.
C3_Witness ==
    /\ outcome = "invalid_input"
    /\ Equal(w_l, Zero)
    /\ solver = "Converged"
    /\ i >= 1

\* C4: sigma <= 0, rho_g <= 0 or ug <= 0 ends the call as invalid input,
\* with the drop diameter never computed and no iteration run.
C4_PreconditionFailureRejected ==
    (~droplet_preconditions_hold /\ pc # "step1") =>
        /\ pc = "done"
        /\ outcome = "invalid_input"
        /\ d = Unset
        /\ solver = "Idle"
        /\ i = 0
        /\ cd_new = Unset

\* C4 witness: rho_g = 0, with sigma and ug positive, has been rejected.
C4_Witness ==
    /\ pc = "done"
    /\ Equal(rho_g, Zero)
    /\ Less(Zero, sigma)
    /\ Less(Zero, ug)
    /\ outcome = "invalid_input"

\* C5: with the droplet preconditions satisfied, mu_g = 0 or rho_l = 0 ends
\* the call as invalid input, never as an unexpected error or a result.
C5_ZeroViscosityOrDensityIsInvalidInput ==
    (droplet_preconditions_hold /\ (Equal(mu_g, Zero) \/ Equal(rho_l, Zero)) /\ pc = "done")
        => outcome = "invalid_input"

\* C6: an entrainment fraction reported as the result lies in [0, 1].
C6_ResultInUnitInterval ==
    outcome = "result" => LessEq(Zero, e_value) /\ LessEq(e_value, One)

\* C7: m = 1 for Re_p < 1.92, m = 0.6 for 1.92 <= Re_p < 500, m = 0 for
\* Re_p >= 500; m is one of 1, 0.6, 0 and the m == 2 exit is never taken.
C7_RegimeExponentClasses ==
    /\ outcome # "m_abort"
    /\ m_value # Unset =>
        /\ m_value \in {One, Num(6000, -4), Zero}
        /\ Less(final_re_p, Num(1920, -3)) => m_value = One
        /\ (LessEq(Num(1920, -3), final_re_p) /\ Less(final_re_p, Num(5000, -1)))
               => m_value = Num(6000, -4)
        /\ LessEq(Num(5000, -1), final_re_p) => m_value = Zero

\* C7 witness: Re_p = 1.92 exactly was classified and the final stage ran.
C7_Witness ==
    /\ final_re_p = Num(1920, -3)
    /\ m_value = Num(6000, -4)
    /\ outcome = "result"

C9_ConvergenceStep ==
    [][/\ (pc = "loop" /\ i = 0) => cd_guess = Num(4000, -4)
       /\ solver = "Converged" => i' = i
       /\ solver' = "Converged" =>
              /\ final_cd' = find_cd_from_rep(final_re_p')
              /\ 1 <= i' /\ i' <= max_iterations
       /\ i' = i + 1 =>
              /\ pc = "loop"
              /\ cd_new' = find_cd_from_rep(re_p_new')
              /\ IF Less(AbsF(Sub(cd_new', cd_guess)), Num(1000, -9))
                 THEN /\ solver' = "Converged"
                      /\ final_re_p' = re_p_new'
                      /\ final_cd' = cd_new'
                      /\ pc' = "regime"
                 ELSE /\ cd_guess' = cd_new'
                      /\ solver' = "Iterating"
                      /\ pc' = "loop"]_vars

\* C9 witness: the loop converged after more than one iteration.
C9_Witness ==
    /\ solver = "Converged"
    /\ i > 1
    /\ cd_guess # Num(4000, -4)
    /\ final_cd = cd_new

====
